---------------------------- MODULE Spec2Model ----------------------------
(***************************************************************************)
(* Model of koji-sane-json-api: src/src/koji.rs (validate_buildid,         *)
(* split_nvr, get_kojipkgs_url_prefix, BUILDRE, scrape_koji_cli,           *)
(* get_koji_build) and the /buildinfo/{id} handler of src/src/main.rs.     *)
(*                                                                         *)
(* A Rust &str is a sequence of characters; a character is a one-character *)
(* TLA+ string, and "U+00E9" stands for one non-ASCII character.           *)
(* A Result is a record [kind, err, val]: kind "ok" (val is the value),    *)
(* kind "err" (err is the failure kind) or kind "panic" (the thread        *)
(* unwinds out of an expect(); err is the expect message).                 *)
(***************************************************************************)
EXTENDS Integers, Sequences, FiniteSets, TLC

VARIABLES pc, buildid, pkg, spawned, output, pos, in_rpms, r, ret, response

vars == <<pc, buildid, pkg, spawned, output, pos, in_rpms, r, ret, response>>

----------------------------------------------------------------------------
(* Bounds of the inputs.                                                   *)

\* longest identifier handed to validate_buildid, beside the tests' own
MaxIdLen == 3
\* longest string handed to split_nvr
MaxNvrLen == 7
\* most lines in the report printed by `koji buildinfo`
MaxLines == 4

----------------------------------------------------------------------------
(* Characters.                                                             *)

Letters ==
    {"a", "b", "c", "d", "e", "f", "g", "h", "i", "j", "k", "l", "m",
     "n", "o", "p", "q", "r", "s", "t", "u", "v", "w", "x", "y", "z",
     "A", "B", "C", "D", "E", "F", "G", "H", "I", "J", "K", "L", "M",
     "N", "O", "P", "Q", "R", "S", "T", "U", "V", "W", "X", "Y", "Z"}

DigitSeq == <<"0", "1", "2", "3", "4", "5", "6", "7", "8", "9">>

Digits == {DigitSeq[i] : i \in 1..Len(DigitSeq)}

NonAscii == {"U+00E9"}

\* char::is_ascii
is_ascii(c) == c \notin NonAscii

\* char::is_ascii_alphanumeric
is_ascii_alphanumeric(c) == c \in Letters \cup Digits

\* the characters of the model for which char::is_whitespace holds
Whitespace == {" ", "\t"}

----------------------------------------------------------------------------
(* Results and options.                                                    *)

Ok(v) == [kind |-> "ok", err |-> "", val |-> v]

Err(e) == [kind |-> "err", err |-> e, val |-> <<>>]

Panic(msg) == [kind |-> "panic", err |-> msg, val |-> <<>>]

NoRet == [kind |-> "none", err |-> "", val |-> <<>>]

IsErr(x, e) == x.kind = "err" /\ x.err = e

Some(v) == [some |-> TRUE, v |-> v]

None == [some |-> FALSE, v |-> <<>>]

\* every string over alphabet A of length at most n
Strings(A, n) == UNION {[1..k -> A] : k \in 0..n}

----------------------------------------------------------------------------
(* String helpers of the standard library, as the code uses them.          *)

\* str::rfind(ch): the index of the last ch, 0 for None
rfind(s, ch) ==
    LET hits == {i \in 1..Len(s) : s[i] = ch}
    IN  IF hits = {} THEN 0 ELSE CHOOSE i \in hits : \A j \in hits : j <= i

\* str::starts_with
starts_with(s, p) == Len(s) >= Len(p) /\ SubSeq(s, 1, Len(p)) = p

\* the number of consecutive characters of s from index i on that lie in
\* (inClass) or outside (~inClass) the set cls
RunLen(s, i, cls, inClass) ==
    LET stops == {j \in i..Len(s) : (s[j] \in cls) # inClass}
    IN  IF stops = {} THEN Len(s) - i + 1
        ELSE (CHOOSE j \in stops : \A k \in stops : j <= k) - i

----------------------------------------------------------------------------
(* validate_buildid, koji.rs 50-68.  Failure kinds (message in the code):  *)
(*   NonAsciiCharacter        "Invalid non-ASCII character {} in buildid"  *)
(*   InvalidLeadingCharacter  "Invalid alphanumeric character {} in ..."   *)
(*   EmptyIdentifier          "Invalid empty buildid"                      *)

\* a plausible slip: only the first character is tested for ASCII
validate_buildid_first_only(s) ==
    IF s # <<>> /\ ~is_ascii(s[1]) THEN Err("NonAsciiCharacter")
    ELSE IF s # <<>>
         THEN IF ~is_ascii_alphanumeric(s[1])
              THEN Err("InvalidLeadingCharacter")
              ELSE Ok(<<>>)
         ELSE Err("EmptyIdentifier")

validate_buildid(s) ==
    IF \E i \in 1..Len(s) : ~is_ascii(s[i]) THEN Err("NonAsciiCharacter")
    ELSE IF s # <<>>
         THEN IF ~is_ascii_alphanumeric(s[1])
              THEN Err("InvalidLeadingCharacter")
              ELSE Ok(<<>>)
         ELSE Err("EmptyIdentifier")

----------------------------------------------------------------------------
(* split_nvr, koji.rs 22-43.  Failure kinds (message in the code):         *)
(*   MissingReleaseSeparator  "Invalid buildid, missing a '-'"             *)
(*   MissingVersionSeparator  "Invalid buildid, missing pkgver '-'"        *)
(*   EmptyName / EmptyVersion / EmptyRelease                               *)
(*                            "Invalid buildid with empty name" / ...      *)

\* str::split_at(idx) for the 0-based byte index idx = i - 1
split_at(s, i) == <<SubSeq(s, 1, i - 1), SubSeq(s, i, Len(s))>>

\* str::strip_prefix("-").expect("-"): the prefix is there by construction
strip_dash(s) == Tail(s)

\* a plausible slip: the second search takes the first '-' of pkgver
\* instead of the last
split_nvr_find_first(p) ==
    LET idx == rfind(p, "-")
    IN
    IF idx = 0 THEN Err("MissingReleaseSeparator")
    ELSE
      LET pkgver == split_at(p, idx)[1]
          rest   == strip_dash(split_at(p, idx)[2])
          hits   == {i \in 1..Len(pkgver) : pkgver[i] = "-"}
          idx2   == IF hits = {} THEN 0
                    ELSE CHOOSE i \in hits : \A j \in hits : i <= j
      IN
      IF idx2 = 0 THEN Err("MissingVersionSeparator")
      ELSE
        LET pkgname == split_at(pkgver, idx2)[1]
            version == strip_dash(split_at(pkgver, idx2)[2])
        IN
        IF pkgname = <<>> THEN Err("EmptyName")
        ELSE IF version = <<>> THEN Err("EmptyVersion")
        ELSE IF rest = <<>> THEN Err("EmptyRelease")
        ELSE Ok(<<pkgname, version, rest>>)

\* a plausible change: the empty release is rejected right after the first
\* split, before the second separator is searched for
split_nvr_release_first(p) ==
    LET idx == rfind(p, "-")
    IN
    IF idx = 0 THEN Err("MissingReleaseSeparator")
    ELSE
      LET pkgver == split_at(p, idx)[1]
          rest   == strip_dash(split_at(p, idx)[2])
          idx2   == rfind(pkgver, "-")
      IN
      IF rest = <<>> THEN Err("EmptyRelease")
      ELSE IF idx2 = 0 THEN Err("MissingVersionSeparator")
      ELSE
        LET pkgname == split_at(pkgver, idx2)[1]
            version == strip_dash(split_at(pkgver, idx2)[2])
        IN
        IF pkgname = <<>> THEN Err("EmptyName")
        ELSE IF version = <<>> THEN Err("EmptyVersion")
        ELSE Ok(<<pkgname, version, rest>>)

split_nvr(p) ==
    LET idx == rfind(p, "-")
    IN
    IF idx = 0 THEN Err("MissingReleaseSeparator")
    ELSE
      LET pkgver == split_at(p, idx)[1]
          rest   == strip_dash(split_at(p, idx)[2])
          idx2   == rfind(pkgver, "-")
      IN
      IF idx2 = 0 THEN Err("MissingVersionSeparator")
      ELSE
        LET pkgname == split_at(pkgver, idx2)[1]
            version == strip_dash(split_at(pkgver, idx2)[2])
        IN
        IF pkgname = <<>> THEN Err("EmptyName")
        ELSE IF version = <<>> THEN Err("EmptyVersion")
        ELSE IF rest = <<>> THEN Err("EmptyRelease")
        ELSE Ok(<<pkgname, version, rest>>)

----------------------------------------------------------------------------
(* get_kojipkgs_url_prefix, koji.rs 10 and 45-48.                          *)

KOJIPKGS_URL ==
    <<"h", "t", "t", "p", "s", ":", "/", "/", "k", "o", "j", "i", "p", "k",
      "g", "s", ".", "f", "e", "d", "o", "r", "a", "p", "r", "o", "j", "e",
      "c", "t", ".", "o", "r", "g", "/", "p", "a", "c", "k", "a", "g", "e",
      "s">>

get_kojipkgs_url_prefix(id) ==
    LET s == split_nvr(id)
    IN  IF s.kind # "ok" THEN s
        ELSE Ok(KOJIPKGS_URL \o <<"/">> \o s.val[1] \o <<"/">> \o s.val[2]
                \o <<"/">> \o s.val[3])

----------------------------------------------------------------------------
(* BUILDRE, koji.rs 70-72:  ^BUILD: +([^ ]+) +\[(\d+)\]                    *)
(* Every repetition is followed by a character outside its class, so the   *)
(* greedy match is the only match: each run is taken to its full length.   *)

BUILD_PREFIX == <<"B", "U", "I", "L", "D", ":">>

\* Regex::captures(line): Some(<<m[1], m[2]>>) or None
BUILDRE_captures(line) ==
    LET a  == Len(BUILD_PREFIX) + 1
        n1 == RunLen(line, a, {" "}, TRUE)
        b  == a + n1
        n2 == RunLen(line, b, {" "}, FALSE)
        c  == b + n2
        n3 == RunLen(line, c, {" "}, TRUE)
        d  == c + n3
        e  == d + 1
        n4 == RunLen(line, e, Digits, TRUE)
        f  == e + n4
    IN  IF /\ starts_with(line, BUILD_PREFIX)
           /\ n1 >= 1 /\ n2 >= 1 /\ n3 >= 1
           /\ d <= Len(line) /\ line[d] = "["
           /\ n4 >= 1
           /\ f <= Len(line) /\ line[f] = "]"
        THEN Some(<<SubSeq(line, b, c - 1), SubSeq(line, e, f - 1)>>)
        ELSE None

----------------------------------------------------------------------------
(* str::parse::<u64>, koji.rs 100.  A u64 is kept as its decimal digits    *)
(* without leading zeros, so that it keeps its 64 bits.                    *)

\* u64::MAX = 2^64 - 1
U64_MAX ==
    <<"1", "8", "4", "4", "6", "7", "4", "4", "0", "7", "3", "7", "0", "9",
      "5", "5", "1", "6", "1", "5">>

DigitVal(c) == CHOOSE v \in 0..9 : DigitSeq[v + 1] = c

StripZeros(d) ==
    LET nz == {i \in 1..Len(d) : d[i] # "0"}
    IN  IF nz = {} THEN <<"0">>
        ELSE SubSeq(d, CHOOSE i \in nz : \A j \in nz : i <= j, Len(d))

\* a > b for two digit strings of one length
DigitsGreater(a, b) ==
    \E i \in 1..Len(a) :
        /\ DigitVal(a[i]) > DigitVal(b[i])
        /\ \A j \in 1..(i - 1) : a[j] = b[j]

parse_u64(d) ==
    LET n == StripZeros(d)
    IN  IF \/ Len(n) > Len(U64_MAX)
           \/ Len(n) = Len(U64_MAX) /\ DigitsGreater(n, U64_MAX)
        THEN Err("PosOverflow")
        ELSE Ok(n)

----------------------------------------------------------------------------
(* str::split_whitespace().next() and std::path::Path, koji.rs 80-94.      *)
(* A Path is kept as the sequence of its components.                       *)

\* the first whitespace-delimited token of the line, or None
split_whitespace_next(line) ==
    LET lead == RunLen(line, 1, Whitespace, TRUE)
        len  == RunLen(line, lead + 1, Whitespace, FALSE)
    IN  IF len = 0 THEN None
        ELSE Some(SubSeq(line, lead + 1, lead + len))

RECURSIVE SplitOn(_, _)
\* str::split(sep)
SplitOn(s, sep) ==
    LET hits == {i \in 1..Len(s) : s[i] = sep}
    IN  IF hits = {} THEN <<s>>
        ELSE LET i == CHOOSE k \in hits : \A j \in hits : k <= j
             IN  <<SubSeq(s, 1, i - 1)>> \o SplitOn(SubSeq(s, i + 1, Len(s)), sep)

\* Path::components on a Unix path: a leading "/" is RootDir, a leading "."
\* is CurDir, ".." is ParentDir, empty segments and other "." are skipped
Path_new(tok) ==
    LET has_root == tok # <<>> /\ tok[1] = "/"
        segs     == SplitOn(tok, "/")
        comp(i)  ==
            IF segs[i] = <<>> THEN [kind |-> "skip", name |-> <<>>]
            ELSE IF segs[i] = <<".">>
                 THEN IF i = 1 /\ ~has_root
                      THEN [kind |-> "CurDir", name |-> segs[i]]
                      ELSE [kind |-> "skip", name |-> <<>>]
            ELSE IF segs[i] = <<".", ".">>
                 THEN [kind |-> "ParentDir", name |-> segs[i]]
            ELSE [kind |-> "Normal", name |-> segs[i]]
        all      == [i \in 1..Len(segs) |-> comp(i)]
        kept(x)  == x.kind # "skip"
    IN  (IF has_root THEN <<[kind |-> "RootDir", name |-> <<"/">>]>> ELSE <<>>)
        \o SelectSeq(all, kept)

\* Path::file_name
file_name(p) ==
    IF p # <<>> /\ p[Len(p)].kind = "Normal" THEN Some(p[Len(p)].name)
    ELSE None

\* Path::parent
parent(p) ==
    IF p # <<>> /\ p[Len(p)].kind \in {"Normal", "CurDir", "ParentDir"}
    THEN Some(SubSeq(p, 1, Len(p) - 1))
    ELSE None

----------------------------------------------------------------------------
(* KojiBuildInfo, koji.rs 12-19, and the loop body of scrape_koji_cli.     *)

\* BTreeMap::new()
EmptyMap == [a \in {} |-> <<>>]

\* Default::default()
DefaultKojiBuildInfo ==
    [nvr |-> <<>>, id |-> <<"0">>, kojipkgs_url_prefix |-> <<>>,
     rpms |-> EmptyMap]

\* rpms.entry(arch).or_default().push(name)
entry_push(rpms, arch, name) ==
    [a \in DOMAIN rpms \cup {arch} |->
        IF a = arch
        THEN Append(IF arch \in DOMAIN rpms THEN rpms[arch] ELSE <<>>, name)
        ELSE rpms[a]]

\* a plausible slip: the new name is put in front of the architecture's list
artifact_line_front(line, rpms) ==
    LET tok == split_whitespace_next(line)
    IN  IF ~tok.some THEN Panic("split")
        ELSE
          LET p    == Path_new(tok.v)
              name == file_name(p)
              arch == IF parent(p).some THEN file_name(parent(p).v) ELSE None
          IN  IF ~name.some THEN Err("MissingArtifactName")
              ELSE IF ~arch.some THEN Err("MissingArtifactArch")
              ELSE Ok([a \in DOMAIN rpms \cup {arch.v} |->
                         IF a = arch.v
                         THEN <<name.v>> \o (IF a \in DOMAIN rpms
                                             THEN rpms[a] ELSE <<>>)
                         ELSE rpms[a]])

\* koji.rs 80-97: the line inside the artifact listing
\*   "Missing RPM name" is MissingArtifactName,
\*   "Missing RPM arch" is MissingArtifactArch;
\*   the to_str() of 84-86 and 92-94 cannot fail on a component of a &str
artifact_line(line, rpms) ==
    LET tok == split_whitespace_next(line)
    IN  IF ~tok.some THEN Panic("split")
        ELSE
          LET p    == Path_new(tok.v)
              name == file_name(p)
              arch == IF parent(p).some THEN file_name(parent(p).v) ELSE None
          IN  IF ~name.some THEN Err("MissingArtifactName")
              ELSE IF ~arch.some THEN Err("MissingArtifactArch")
              ELSE Ok(entry_push(rpms, arch.v, name.v))

----------------------------------------------------------------------------
(* Inputs.                                                                 *)

\* the identifiers of test_validate_buildid, koji.rs 136-140
Id42 == <<"4", "2">>

IdRpmOstree ==
    <<"r", "p", "m", "-", "o", "s", "t", "r", "e", "e", "-", "2", "0", "2",
      "0", ".", "1", "0", "-", "1", ".", "f", "c", "3", "4">>

IdDashFoo == <<"-", "f", "o", "o">>

IdDotDotBar == <<".", ".", "/", "b", "a", "r", ".", "r", "p", "m">>

TestIds == {Id42, IdRpmOstree, <<>>, IdDashFoo, IdDotDotBar}

\* the identifiers validate_buildid is applied to
IdChars == {"a", "4", "-", ".", "U+00E9"}

IdStrings == Strings(IdChars, MaxIdLen) \cup TestIds

\* the path parameters of the requests to /buildinfo/{id}
RequestIds == {Id42, <<>>, IdDashFoo, IdDotDotBar, <<"U+00E9", "4", "2">>}

\* the strings split_nvr is applied to
NvrChars == {"a", "1", "-"}

NvrStrings == Strings(NvrChars, MaxNvrLen) \cup {IdRpmOstree}

\* the lines of the reports that `koji buildinfo` prints
LnBuild ==
    <<"B", "U", "I", "L", "D", ":", " ", "a", "-", "1", "-", "1", " ", "[",
      "1", "8", "4", "4", "6", "7", "4", "4", "0", "7", "3", "7", "0", "9",
      "5", "5", "1", "6", "1", "5", "]">>

LnBuildOverflow ==
    <<"B", "U", "I", "L", "D", ":", " ", "a", "-", "1", "-", "1", " ", "[",
      "1", "8", "4", "4", "6", "7", "4", "4", "0", "7", "3", "7", "0", "9",
      "5", "5", "1", "6", "1", "6", "]">>

LnBuildNoDash ==
    <<"B", "U", "I", "L", "D", ":", " ", "a", "1", " ", "[", "7", "]">>

LnRpms == <<"R", "P", "M", "s", ":">>

LnX86A ==
    <<"/", "k", "/", "x", "8", "6", "_", "6", "4", "/", "a", ".", "r", "p",
      "m">>

LnX86B ==
    <<"/", "k", "/", "x", "8", "6", "_", "6", "4", "/", "b", ".", "r", "p",
      "m", " ", "s", "i", "g">>

LnSrcA == <<"/", "k", "/", "s", "r", "c", "/", "a", ".", "r", "p", "m">>

LnBare == <<"a", ".", "r", "p", "m">>

LnDotDot == <<"/", "k", "/", ".", ".">>

LnEmpty == <<>>

LnBlank == <<"\t", " ">>

LinePool ==
    {LnBuild, LnBuildOverflow, LnBuildNoDash, LnRpms, LnX86A, LnX86B, LnSrcA,
     LnBare, LnDotDot, LnEmpty, LnBlank}

\* the standard output of the subprocess, as the lines str::lines() yields
Reports == Strings(LinePool, MaxLines)

----------------------------------------------------------------------------
(* The request: buildinfo (main.rs 7-13), get_koji_build (koji.rs 115-126) *)
(* and the loop of scrape_koji_cli (koji.rs 74-113), one line per step.    *)
(*   pc        the position of the request                                 *)
(*   buildid   the path parameter                                          *)
(*   spawned   Command::new("koji") ... .output() has been called          *)
(*   output    the lines of the subprocess's standard output               *)
(*   pos       the number of lines the loop has taken from output.lines()  *)
(*   in_rpms, r  the locals of scrape_koji_cli                             *)
(*   ret       what get_koji_build returned, or how it ended               *)
(*   response  the status of the HTTP response                             *)

Init ==
    /\ pc = "validate"
    /\ buildid \in RequestIds
    /\ pkg = <<>>
    /\ spawned = FALSE
    /\ output = <<>>
    /\ pos = 0
    /\ in_rpms = FALSE
    /\ r = DefaultKojiBuildInfo
    /\ ret = NoRet
    /\ response = "none"

\* a plausible slip: the result of validate_buildid is dropped (no `?`)
Validate_unchecked ==
    /\ pc = "validate"
    /\ pc' = "spawn"
    /\ UNCHANGED <<buildid, pkg, spawned, output, pos, in_rpms, r, ret,
                   response>>

\* koji.rs 116: validate_buildid(buildid)?
Validate ==
    /\ pc = "validate"
    /\ LET v == validate_buildid(buildid)
       IN  IF v.kind = "ok"
           THEN pc' = "spawn" /\ ret' = ret
           ELSE pc' = "respond" /\ ret' = v
    /\ UNCHANGED <<buildid, pkg, spawned, output, pos, in_rpms, r, response>>

\* the failures of get_koji_build that are not scrape_koji_cli's
KojiFailures == {"SpawnFailed", "KojiFailed", "NotUtf8"}

\* koji.rs 117-125: the subprocess cannot be run (the `?` of 121), exits
\* with a failure status (122-124) or prints bytes that are not UTF-8 (125)
KojiFails ==
    /\ pc = "spawn"
    /\ spawned' = TRUE
    /\ \E e \in KojiFailures : ret' = Err(e)
    /\ pc' = "respond"
    /\ UNCHANGED <<buildid, pkg, output, pos, in_rpms, r, response>>

\* koji.rs 117-125 and 75-77: the subprocess prints a report and
\* scrape_koji_cli starts on it
KojiReports ==
    /\ pc = "spawn"
    /\ spawned' = TRUE
    /\ output' \in Reports
    /\ r' = DefaultKojiBuildInfo
    /\ in_rpms' = FALSE
    /\ pos' = 0
    /\ pc' = "scan"
    /\ UNCHANGED <<buildid, pkg, ret, response>>

\* the line the loop holds next
NextLine == output[pos + 1]

\* koji.rs 79-97: a line inside the artifact listing
ScanArtifactLine ==
    /\ pc = "scan" /\ pos < Len(output)
    /\ in_rpms
    /\ pos' = pos + 1
    /\ LET a == artifact_line(NextLine, r.rpms)
       IN  IF a.kind = "ok"
           THEN r' = [r EXCEPT !.rpms = a.val] /\ pc' = pc /\ ret' = ret
           ELSE r' = r /\ pc' = "respond" /\ ret' = a
    /\ UNCHANGED <<buildid, pkg, spawned, output, in_rpms, response>>

\* a plausible slip: the BUILD: pattern is tried before in_rpms is tested
ScanBuildLine_any_state ==
    /\ pc = "scan" /\ pos < Len(output)
    /\ BUILDRE_captures(NextLine).some
    /\ pos' = pos + 1
    /\ LET m  == BUILDRE_captures(NextLine).v
           id == parse_u64(m[2])
       IN  IF id.kind = "ok"
           THEN r' = [r EXCEPT !.nvr = m[1], !.id = id.val]
                /\ pc' = pc /\ ret' = ret
           ELSE r' = [r EXCEPT !.nvr = m[1]]
                /\ pc' = "respond" /\ ret' = Panic("parse u64")
    /\ UNCHANGED <<buildid, pkg, spawned, output, in_rpms, response>>

\* koji.rs 98-100: a line matching BUILDRE, outside the artifact listing;
\* expect("parse u64") panics when the digits do not fit a u64
ScanBuildLine ==
    /\ pc = "scan" /\ pos < Len(output)
    /\ ~in_rpms
    /\ BUILDRE_captures(NextLine).some
    /\ pos' = pos + 1
    /\ LET m  == BUILDRE_captures(NextLine).v
           id == parse_u64(m[2])
       IN  IF id.kind = "ok"
           THEN r' = [r EXCEPT !.nvr = m[1], !.id = id.val]
                /\ pc' = pc /\ ret' = ret
           ELSE r' = [r EXCEPT !.nvr = m[1]]
                /\ pc' = "respond" /\ ret' = Panic("parse u64")
    /\ UNCHANGED <<buildid, pkg, spawned, output, in_rpms, response>>

\* koji.rs 101-103: the header of the artifact listing
ScanRpmsHeader ==
    /\ pc = "scan" /\ pos < Len(output)
    /\ ~in_rpms
    /\ ~BUILDRE_captures(NextLine).some
    /\ starts_with(NextLine, LnRpms)
    /\ pos' = pos + 1
    /\ in_rpms' = TRUE
    /\ UNCHANGED <<pc, buildid, pkg, spawned, output, r, ret, response>>

\* koji.rs 78-104: any other line falls through the if chain
ScanOtherLine ==
    /\ pc = "scan" /\ pos < Len(output)
    /\ ~in_rpms
    /\ ~BUILDRE_captures(NextLine).some
    /\ ~starts_with(NextLine, LnRpms)
    /\ pos' = pos + 1
    /\ UNCHANGED <<pc, buildid, pkg, spawned, output, in_rpms, r, ret,
                   response>>

\* a plausible slip: the two checks after the loop in the other order
PostScan_rpms_first ==
    /\ pc = "scan" /\ pos = Len(output)
    /\ pc' = "respond"
    /\ IF ~in_rpms
       THEN r' = r /\ ret' = Err("ArtifactSectionMissing")
       ELSE IF r.nvr = <<>>
       THEN r' = r /\ ret' = Err("BuildNotFound")
       ELSE LET u == get_kojipkgs_url_prefix(r.nvr)
            IN  IF u.kind # "ok"
                THEN r' = r /\ ret' = u
                ELSE /\ r' = [r EXCEPT !.kojipkgs_url_prefix = u.val]
                     /\ ret' = Ok(r')
    /\ UNCHANGED <<buildid, pkg, spawned, output, pos, in_rpms, response>>

\* koji.rs 105-112: after the loop
\*   "Failed to find BUILD" is BuildNotFound,
\*   "Failed to find RPMs" is ArtifactSectionMissing;
\*   the `?` of 111 hands on the failure of split_nvr
PostScan ==
    /\ pc = "scan" /\ pos = Len(output)
    /\ pc' = "respond"
    /\ IF r.nvr = <<>>
       THEN r' = r /\ ret' = Err("BuildNotFound")
       ELSE IF ~in_rpms
       THEN r' = r /\ ret' = Err("ArtifactSectionMissing")
       ELSE LET u == get_kojipkgs_url_prefix(r.nvr)
            IN  IF u.kind # "ok"
                THEN r' = r /\ ret' = u
                ELSE /\ r' = [r EXCEPT !.kojipkgs_url_prefix = u.val]
                     /\ ret' = Ok(r')
    /\ UNCHANGED <<buildid, pkg, spawned, output, pos, in_rpms, response>>

\* main.rs 10-12: a failure, and a panic of the pool's thread (the
\* BlockingError of actix_threadpool::run), become a 500; a record a 200
Respond ==
    /\ pc = "respond"
    /\ response' = IF ret.kind = "ok" THEN "200" ELSE "500"
    /\ pc' = "done"
    /\ UNCHANGED <<buildid, pkg, spawned, output, pos, in_rpms, r, ret>>

Next ==
    \/ Validate
    \/ KojiFails
    \/ KojiReports
    \/ ScanArtifactLine
    \/ ScanBuildLine
    \/ ScanRpmsHeader
    \/ ScanOtherLine
    \/ PostScan
    \/ Respond

Spec == Init /\ [][Next]_vars

----------------------------------------------------------------------------
(* validate_buildid and split_nvr on their own, applied to every string of *)
(* IdStrings and of NvrStrings.                                            *)

InitValidate ==
    /\ pc = "call"
    /\ buildid \in IdStrings
    /\ pkg = <<>>
    /\ spawned = FALSE
    /\ output = <<>>
    /\ pos = 0
    /\ in_rpms = FALSE
    /\ r = DefaultKojiBuildInfo
    /\ ret = NoRet
    /\ response = "none"

CallValidate ==
    /\ pc = "call"
    /\ ret' = validate_buildid(buildid)
    /\ pc' = "returned"
    /\ UNCHANGED <<buildid, pkg, spawned, output, pos, in_rpms, r, response>>

NextValidate == CallValidate

SpecValidate == InitValidate /\ [][NextValidate]_vars

InitNvr ==
    /\ pc = "call"
    /\ pkg \in NvrStrings
    /\ buildid = <<>>
    /\ spawned = FALSE
    /\ output = <<>>
    /\ pos = 0
    /\ in_rpms = FALSE
    /\ r = DefaultKojiBuildInfo
    /\ ret = NoRet
    /\ response = "none"

CallSplitNvr ==
    /\ pc = "call"
    /\ ret' = split_nvr(pkg)
    /\ pc' = "returned"
    /\ UNCHANGED <<buildid, pkg, spawned, output, pos, in_rpms, r, response>>

NextNvr == CallSplitNvr

SpecNvr == InitNvr /\ [][NextNvr]_vars

----------------------------------------------------------------------------
(* What the properties below say about an input, stated on the input.      *)

\* s holds the character ch
Has(s, ch) == \E i \in 1..Len(s) : s[i] = ch

\* the index of the last '-' of s, for an s that holds one
LastDash(s) == CHOOSE i \in 1..Len(s) : s[i] = "-" /\ ~Has(SubSeq(s, i + 1, Len(s)), "-")

\* the report holds a line matching the BUILD: pattern
HasBuildLine(o) == \E i \in 1..Len(o) : BUILDRE_captures(o[i]).some

\* the report holds a line starting with RPMs:
HasRpmsLine(o) == \E i \in 1..Len(o) : starts_with(o[i], LnRpms)

\* the index of the first line starting with RPMs:
FirstRpms(o) ==
    CHOOSE i \in 1..Len(o) :
        /\ starts_with(o[i], LnRpms)
        /\ \A j \in 1..(i - 1) : ~starts_with(o[j], LnRpms)

\* the lines after the first RPMs: header
ArtifactLines(o) ==
    IF HasRpmsLine(o) THEN SubSeq(o, FirstRpms(o) + 1, Len(o)) ELSE <<>>

\* the directories and the file of the line's first token: the segments
\* between its slashes, without the empty ones and the "." ones
PathSegments(line) ==
    LET tok     == split_whitespace_next(line)
        named(x) == x # <<>> /\ x # <<".">>
    IN  IF tok.some THEN SelectSeq(SplitOn(tok.v, "/"), named) ELSE <<>>

FileOf(line) == PathSegments(line)[Len(PathSegments(line))]

ArchOf(line) == PathSegments(line)[Len(PathSegments(line)) - 1]

\* the line names a file: it has a token, and the token does not end in ".."
NamesFile(line) ==
    /\ PathSegments(line) # <<>>
    /\ FileOf(line) # <<".", ".">>

\* the line names a file inside a named directory
NamesFileInArch(line) ==
    /\ NamesFile(line)
    /\ Len(PathSegments(line)) >= 2
    /\ ArchOf(line) # <<".", ".">>

\* scrape_koji_cli was called and has returned or panicked
ScrapeEnded ==
    /\ pc \in {"respond", "done"}
    /\ spawned
    /\ ~(ret.kind = "err" /\ ret.err \in KojiFailures)

----------------------------------------------------------------------------
(* C1.  validate_buildid(s) succeeds exactly when s is non-empty, all      *)
(* ASCII and starts with an ASCII alphanumeric character; it fails with    *)
(* EmptyIdentifier on the empty string, NonAsciiCharacter on a string with *)
(* a non-ASCII character, InvalidLeadingCharacter on an all-ASCII,         *)
(* non-empty string whose first character is not alphanumeric.  "42" and   *)
(* "rpm-ostree-2020.10-1.fc34" pass; "", "-foo", "../bar.rpm" fail.        *)
C1_ValidateContract ==
    pc = "returned" =>
        LET s        == buildid
            allAscii == \A i \in 1..Len(s) : s[i] \notin NonAscii
            leadOk   == s # <<>> /\ s[1] \in Letters \cup Digits
        IN  /\ ret.kind = "ok" <=> (s # <<>> /\ allAscii /\ leadOk)
            /\ s = <<>> => IsErr(ret, "EmptyIdentifier")
            /\ ~allAscii => IsErr(ret, "NonAsciiCharacter")
            /\ (s # <<>> /\ allAscii /\ ~leadOk)
                   => IsErr(ret, "InvalidLeadingCharacter")
            /\ s \in {Id42, IdRpmOstree} => ret.kind = "ok"
            /\ s \in {<<>>, IdDashFoo, IdDotDotBar} => ret.kind = "err"

\* an identifier with an alphanumeric first character and a non-ASCII later
\* one has been rejected
C1_Witness ==
    /\ pc = "returned"
    /\ Len(buildid) >= 2
    /\ buildid[1] \in Letters \cup Digits
    /\ \E i \in 2..Len(buildid) : buildid[i] \in NonAscii
    /\ IsErr(ret, "NonAsciiCharacter")

----------------------------------------------------------------------------
(* C2.  The koji subprocess is invoked only after validate_buildid has     *)
(* succeeded on the request's identifier: for an identifier that fails     *)
(* validation the subprocess is never started, the scraper never runs and  *)
(* the request ends in a failure.                                          *)
C2_KojiOnlyAfterValidation ==
    LET valid == validate_buildid(buildid).kind = "ok"
    IN  /\ spawned => valid
        /\ pc \in {"spawn", "scan"} => valid
        /\ ~valid =>
              /\ output = <<>> /\ pos = 0 /\ r = DefaultKojiBuildInfo
              /\ pc \in {"respond", "done"} => ret.kind = "err"
              /\ pc = "done" => response = "500"

\* a request with an invalid identifier has been answered, koji never run
C2_Witness ==
    /\ pc = "done"
    /\ validate_buildid(buildid).kind = "err"
    /\ ~spawned
    /\ response = "500"

----------------------------------------------------------------------------
(* C3.  Whenever split_nvr(s) succeeds with (name, version, release), the  *)
(* three are non-empty, name-version-release is s, release is the text     *)
(* after the last '-' of s and version the text between the last two '-'   *)
(* (neither holds a '-', name may).                                        *)
C3_SplitNvrRoundTrip ==
    (pc = "returned" /\ ret.kind = "ok") =>
        LET name    == ret.val[1]
            version == ret.val[2]
            release == ret.val[3]
            d1      == LastDash(pkg)
            before  == SubSeq(pkg, 1, d1 - 1)
            d2      == LastDash(before)
        IN  /\ name # <<>> /\ version # <<>> /\ release # <<>>
            /\ name \o <<"-">> \o version \o <<"-">> \o release = pkg
            /\ Has(pkg, "-") /\ release = SubSeq(pkg, d1 + 1, Len(pkg))
            /\ Has(before, "-") /\ version = SubSeq(before, d2 + 1, Len(before))
            /\ ~Has(version, "-") /\ ~Has(release, "-")

\* a string whose name component holds a '-' has been split
C3_Witness ==
    /\ pc = "returned"
    /\ ret.kind = "ok"
    /\ Has(ret.val[1], "-")

----------------------------------------------------------------------------
(* C4.  As claimed, for the calls of scrape_koji_cli that return: a report *)
(* with no BUILD: line fails with BuildNotFound (also when it has no       *)
(* RPMs: line either), and a report with a BUILD: line and no RPMs: line   *)
(* fails with ArtifactSectionMissing.                                      *)
C4_MissingSectionsAsClaimed ==
    (ScrapeEnded /\ ret.kind # "panic") =>
        /\ ~HasBuildLine(output) => IsErr(ret, "BuildNotFound")
        /\ (HasBuildLine(output) /\ ~HasRpmsLine(output))
               => IsErr(ret, "ArtifactSectionMissing")

(* C4, amended.  No record is returned for a report with no BUILD: line or *)
(* with a BUILD: line and no RPMs: line.  With no BUILD: line the failure  *)
(* is BuildNotFound when every line after the first RPMs: header (if any)  *)
(* names a file inside a directory, so also when there is no RPMs: line;   *)
(* otherwise the scan ends at the first line that does not, with           *)
(* MissingArtifactName, MissingArtifactArch or the panic of expect("split")*)
(* With a BUILD: line and no RPMs: line the failure is                     *)
(* ArtifactSectionMissing when the digits of every BUILD: line fit a u64,  *)
(* and the panic of expect("parse u64") otherwise.                         *)
C4_MissingSections ==
    ScrapeEnded =>
        LET arts     == ArtifactLines(output)
            listed   == \A i \in 1..Len(arts) : NamesFileInArch(arts[i])
            idsFit   == \A i \in 1..Len(output) :
                            BUILDRE_captures(output[i]).some =>
                                parse_u64(BUILDRE_captures(output[i]).v[2]).kind = "ok"
        IN  /\ ~HasBuildLine(output) =>
                /\ ret.kind # "ok"
                /\ listed => IsErr(ret, "BuildNotFound")
                /\ ~listed =>
                      \/ IsErr(ret, "MissingArtifactName")
                      \/ IsErr(ret, "MissingArtifactArch")
                      \/ ret = Panic("split")
            /\ (HasBuildLine(output) /\ ~HasRpmsLine(output)) =>
                /\ ret.kind # "ok"
                /\ idsFit => IsErr(ret, "ArtifactSectionMissing")
                /\ ~idsFit => ret = Panic("parse u64")

\* a report with an RPMs: header, artifact lines and no BUILD: line has
\* failed with BuildNotFound
C4_Witness ==
    /\ ScrapeEnded
    /\ ~HasBuildLine(output)
    /\ HasRpmsLine(output)
    /\ ArtifactLines(output) # <<>>
    /\ IsErr(ret, "BuildNotFound")

----------------------------------------------------------------------------
(* C5.  On a successful scrape the keys of rpms are exactly the            *)
(* architectures (parent directory names) of the lines after the RPMs:     *)
(* header, and each architecture's list is the filenames of its lines, in  *)
(* the report's order and with the report's multiplicity.                  *)
C5_RpmsGroupedInOrder ==
    (pc \in {"respond", "done"} /\ ret.kind = "ok") =>
        LET arts == ArtifactLines(output)
            rpms == ret.val.rpms
        IN  /\ DOMAIN rpms = {ArchOf(arts[i]) : i \in 1..Len(arts)}
            /\ \A a \in DOMAIN rpms :
                  LET mine == SelectSeq(arts, LAMBDA l : ArchOf(l) = a)
                  IN  rpms[a] = [i \in 1..Len(mine) |-> FileOf(mine[i])]

\* a record with two different files of one architecture has been returned
C5_Witness ==
    /\ pc = "done"
    /\ ret.kind = "ok"
    /\ \E a \in DOMAIN ret.val.rpms :
          /\ Len(ret.val.rpms[a]) >= 2
          /\ ret.val.rpms[a][1] # ret.val.rpms[a][2]

----------------------------------------------------------------------------
(* C6.  Every record scrape_koji_cli returns is fully populated: the nvr   *)
(* is non-empty, the URL prefix is set and rpms has at least one           *)
(* architecture.                                                           *)
C6_RecordFullyPopulated ==
    (pc \in {"respond", "done"} /\ ret.kind = "ok") =>
        /\ ret.val.nvr # <<>>
        /\ ret.val.kojipkgs_url_prefix # <<>>
        /\ DOMAIN ret.val.rpms # {}

----------------------------------------------------------------------------
(* C7.  When a line matching the BUILD: pattern, read outside the artifact *)
(* listing, carries digits that do not fit a u64, scrape_koji_cli returns  *)
(* a failure value: it does not abort, and it returns no record.           *)
C7_OverflowIsAFailureValue ==
    (/\ ScrapeEnded
     /\ pos >= 1
     /\ ~HasRpmsLine(SubSeq(output, 1, pos - 1))
     /\ BUILDRE_captures(output[pos]).some
     /\ parse_u64(BUILDRE_captures(output[pos]).v[2]).kind # "ok")
        => ret.kind = "err"

----------------------------------------------------------------------------
(* C8.  When a line read inside the artifact listing yields no filename    *)
(* (it has no token at all, or its path has no final name) the call        *)
(* returns MissingArtifactName, and when it yields a filename with no      *)
(* parent directory name it returns MissingArtifactArch; it never aborts.  *)
C8_BadArtifactIsAFailureValue ==
    (/\ ScrapeEnded
     /\ pos >= 2
     /\ HasRpmsLine(SubSeq(output, 1, pos - 1)))
        => /\ ~NamesFile(output[pos]) => IsErr(ret, "MissingArtifactName")
           /\ (NamesFile(output[pos]) /\ ~NamesFileInArch(output[pos]))
                  => IsErr(ret, "MissingArtifactArch")

----------------------------------------------------------------------------
(* C9.  As claimed: split_nvr fails with MissingReleaseSeparator when the  *)
(* string has no '-'; otherwise with EmptyRelease when nothing follows the *)
(* last '-'; otherwise with MissingVersionSeparator when the text before   *)
(* it has no '-'; otherwise with EmptyName; otherwise with EmptyVersion.   *)
C9_OrderAsClaimed ==
    pc = "returned" =>
        LET d1      == LastDash(pkg)
            before  == SubSeq(pkg, 1, d1 - 1)
            release == SubSeq(pkg, d1 + 1, Len(pkg))
            d2      == LastDash(before)
            name    == SubSeq(before, 1, d2 - 1)
            version == SubSeq(before, d2 + 1, Len(before))
        IN  IF ~Has(pkg, "-") THEN IsErr(ret, "MissingReleaseSeparator")
            ELSE IF release = <<>> THEN IsErr(ret, "EmptyRelease")
            ELSE IF ~Has(before, "-") THEN IsErr(ret, "MissingVersionSeparator")
            ELSE IF name = <<>> THEN IsErr(ret, "EmptyName")
            ELSE IF version = <<>> THEN IsErr(ret, "EmptyVersion")
            ELSE ret.kind = "ok"

(* C9, amended.  split_nvr fails with MissingReleaseSeparator when the     *)
(* string has no '-'; otherwise with MissingVersionSeparator when the text *)
(* before the last '-' has no '-'; otherwise with EmptyName; otherwise     *)
(* with EmptyVersion; otherwise with EmptyRelease when nothing follows the *)
(* last '-'.  A string ending in '-' fails with the first of these that    *)
(* applies ("foo-" with MissingVersionSeparator); "foo--bar" fails with    *)
(* EmptyVersion.                                                           *)
C9_OrderOfChecks ==
    pc = "returned" =>
        LET d1      == LastDash(pkg)
            before  == SubSeq(pkg, 1, d1 - 1)
            release == SubSeq(pkg, d1 + 1, Len(pkg))
            d2      == LastDash(before)
            name    == SubSeq(before, 1, d2 - 1)
            version == SubSeq(before, d2 + 1, Len(before))
        IN  IF ~Has(pkg, "-") THEN IsErr(ret, "MissingReleaseSeparator")
            ELSE IF ~Has(before, "-") THEN IsErr(ret, "MissingVersionSeparator")
            ELSE IF name = <<>> THEN IsErr(ret, "EmptyName")
            ELSE IF version = <<>> THEN IsErr(ret, "EmptyVersion")
            ELSE IF release = <<>> THEN IsErr(ret, "EmptyRelease")
            ELSE ret.kind = "ok"

\* a string with one '-', its last character, has failed with
\* MissingVersionSeparator
C9_Witness ==
    /\ pc = "returned"
    /\ Len(pkg) >= 2
    /\ pkg[Len(pkg)] = "-"
    /\ IsErr(ret, "MissingVersionSeparator")

----------------------------------------------------------------------------
\* what C10 says of one step of the request
C10_Step ==
    /\ in_rpms => in_rpms'
    /\ (~in_rpms /\ in_rpms') =>
          /\ pc = "scan" /\ pos' = pos + 1
          /\ starts_with(output[pos + 1], LnRpms)
          /\ r' = r /\ pc' = "scan"
    /\ (~in_rpms /\ pos' = pos + 1 /\ starts_with(output[pos + 1], LnRpms))
          => in_rpms'
    /\ (in_rpms /\ pos' = pos + 1) =>
          /\ r'.nvr = r.nvr /\ r'.id = r.id
          /\ IF NamesFileInArch(output[pos + 1])
             THEN /\ r'.rpms = entry_push(r.rpms, ArchOf(output[pos + 1]),
                                          FileOf(output[pos + 1]))
                  /\ pc' = "scan"
             ELSE r'.rpms = r.rpms /\ pc' = "respond" /\ ret'.kind # "ok"

(* C10.  in_rpms starts false, becomes true only on a line starting with   *)
(* RPMs: read while it is false (and does so on every such line), and      *)
(* never returns to false: every later line is handled as an artifact      *)
(* line, lines matching BUILD: or starting with RPMs: included, and then   *)
(* changes neither nvr, id nor in_rpms; the header line adds no artifact.  *)
C10_RpmsStateIsOneWay == ~in_rpms /\ [][C10_Step]_vars

\* a line matching BUILD: has been read inside the artifact listing and
\* has left the nvr empty
C10_Witness ==
    /\ in_rpms
    /\ pos >= 2
    /\ BUILDRE_captures(output[pos]).some
    /\ r.nvr = <<>>

=============================================================================
